---- MODULE Spec2Model ----
(***************************************************************************)
(* Model of the chunking/parsing engine, src/src/parsing/code_parser.py.   *)
(*                                                                         *)
(* Text is a sequence of character atoms.  An atom is either one of the    *)
(* characters the code looks at (space, newline, form feed, '#', '/', ';', *)
(* a quote) or a run of other characters that the code never looks inside  *)
(* (a keyword, a word, the text of a Python statement).                    *)
(*                                                                         *)
(* Python source is written in a small line-oriented subset of Python      *)
(* (PyLine below).  ast_parse gives every text over that subset the tree   *)
(* (or the exception) CPython's ast.parse gives it.                        *)
(***************************************************************************)
EXTENDS Integers, Sequences, FiniteSets, TLC

\* ---------------------------------------------------------------- bounds
MaxLines   == 3    \* physical lines of an enumerated Python file
MaxGen     == 3    \* characters of an enumerated non-Python file
MaxEntries == 3    \* entries of an enumerated multi-file ingest
MaxImp     == 3    \* lines of an enumerated file of import statements
MaxBr      == 3    \* lines of an enumerated file of branching statements
MaxItems   == 3    \* items of an enumerated embeddings list
MaxSnips   == 3    \* chunks of an enumerated processed_chunks.json
MaxBatch   == 2    \* largest batch_size the embedder is constructed with

\* ------------------------------------------------------------ characters
NL == "\n"
FF == "\f"
SP == " "
QUOTE == "\""

\* str.isspace / regex \s, restricted to the atoms of the model
Whitespace == {SP, NL, FF}

\* the line boundaries of str.splitlines (a superset of the ones ast counts)
LineBreaks == {NL, FF}

\* the line boundaries the Python tokenizer numbers lines by
AstLineBreaks == {NL}

None == "None"

\* an optional number (a line number, a complexity) or file: Absent is
\* Python's None, Some(x) is x
Absent == <<>>
Some(x) == <<x>>

\* ------------------------------------------------------- string helpers
RECURSIVE SplitAt(_, _)
\* s split at every atom of seps: k separators give k + 1 pieces
SplitAt(s, seps) ==
    IF s = <<>> THEN << <<>> >>
    ELSE LET r == SplitAt(Tail(s), seps) IN
         IF Head(s) \in seps THEN << <<>> >> \o r
         ELSE << <<Head(s)>> \o Head(r) >> \o Tail(r)

\* a final separator does not open a further, empty line
DropLastEmpty(p) ==
    IF p[Len(p)] = <<>> THEN SubSeq(p, 1, Len(p) - 1) ELSE p

\* str.splitlines()
splitlines(s) == DropLastEmpty(SplitAt(s, LineBreaks))

\* the physical lines ast.parse numbers from 1
PhysLines(s) == DropLastEmpty(SplitAt(s, AstLineBreaks))

RECURSIVE JoinNL(_)
\* "\n".join(lines)
JoinNL(lines) ==
    IF lines = <<>> THEN <<>>
    ELSE IF Len(lines) = 1 THEN lines[1]
    ELSE lines[1] \o <<NL>> \o JoinNL(Tail(lines))

\* code.count("\n")
CountNL(s) == Cardinality({k \in 1..Len(s) : s[k] = NL})

\* no text is ever taken to be blank
StripIsEmpty_never(s) == FALSE

\* s.strip() == ""
StripIsEmpty(s) == \A k \in 1..Len(s) : s[k] \in Whitespace

\* ------------------------------------------------- the Python subset
Deep == "-...-1"     \* an expression nested deeper than the parser's limit

\* the statement  x = '<form feed>'  : one physical line, three atoms
FfLine == <<"x = '", FF, "'">>
FfAssign == "x = '\f'"

ImportAtoms == {"import os", "import a.b as c", "import os, sys",
                "from x import y", "from . import y"}
LoopAtoms   == {"for i in y: pass", "while c: pass", "async for i in y: pass"}
AssignAtoms == {"x = 1", FfAssign, "x = 1 if c else 2", "x = a and b and c",
                "x = a and b or c"}
ExceptAtoms == {"except E: pass", "except* E: pass"}
Finally     == "finally: pass"
TryAtom     == "try: pass"

SimpleAtoms == {"x = 1", FfAssign, "import os", "'doc'",
                "def f(): pass", "async def h(): pass"}
               \cup ImportAtoms \cup LoopAtoms \cup AssignAtoms
HeaderAtoms == {"def f():", "class A:", "if c:"}
DefAtoms    == {"def f(): pass", "async def h(): pass", "def f():", "class A:"}

NodeType(a) ==
    CASE a \in AssignAtoms              -> "Assign"
      [] a \in {"import os", "import a.b as c", "import os, sys"} -> "Import"
      [] a \in {"from x import y", "from . import y"} -> "ImportFrom"
      [] a = "for i in y: pass"         -> "For"
      [] a = "while c: pass"            -> "While"
      [] a = "async for i in y: pass"   -> "AsyncFor"
      [] a = "'doc'"                -> "Expr"
      [] a \in {"def f(): pass", "def f():"} -> "FunctionDef"
      [] a = "async def h(): pass"      -> "AsyncFunctionDef"
      [] a = "class A:"                 -> "ClassDef"
      [] a = "if c:"                    -> "If"
      [] OTHER                          -> "Expr"

NodeName(a) ==
    CASE a \in {"def f(): pass", "def f():"} -> "f"
      [] a = "async def h(): pass"      -> "h"
      [] a = "class A:"                 -> "A"
      [] OTHER                          -> None

\* alias.name of each alias of an import statement
AliasNames(a) ==
    CASE a = "import os"        -> <<"os">>
      [] a = "import a.b as c"  -> <<"a.b">>
      [] a = "import os, sys"   -> <<"os", "sys">>
      [] a = "from x import y"  -> <<"y">>
      [] a = "from . import y"  -> <<"y">>
      [] OTHER                  -> <<>>

\* node.module of an ImportFrom statement (None for  from . import y)
ModuleOf(a) == IF a = "from x import y" THEN "x" ELSE None

\* an expression or handler node: no statements below it
Inner(type, nvalues, sub, line) ==
    [type |-> type, name |-> None, lineno |-> line, end_lineno |-> line,
     body |-> <<>>, sub |-> sub, names |-> <<>>, module |-> None,
     nvalues |-> nvalues]

\* the expression nodes of a statement that the traversal counts
Exprs(a, line) ==
    CASE a = "x = 1 if c else 2" -> <<Inner("IfExp", 0, <<>>, line)>>
      [] a = "x = a and b and c" -> <<Inner("BoolOp", 3, <<>>, line)>>
      [] a = "x = a and b or c"  ->
            <<Inner("BoolOp", 2, <<Inner("BoolOp", 2, <<>>, line)>>, line)>>
      [] OTHER                   -> <<>>

IsBlank(ln) == \A k \in 1..Len(ln) : ln[k] \in Whitespace

\* the statement a line holds once its indentation is taken off: the line's
\* one atom, or FfAssign; "?" when the line is no statement of the subset (a
\* piece of a statement that was cut at a form feed)
Stmt(core) ==
    IF core = FfLine THEN FfAssign
    ELSE IF Len(core) = 1 /\ core[1] # FfAssign THEN core[1]
    ELSE "?"

Node(a, first, last, kids) ==
    [type |-> NodeType(a), name |-> NodeName(a), lineno |-> first,
     end_lineno |-> last, body |-> kids, sub |-> Exprs(a, first),
     names |-> AliasNames(a), module |-> ModuleOf(a), nvalues |-> 0]

Ok(nodes) == [outcome |-> "ok", body |-> nodes]
Raised(exc) == [outcome |-> exc, body |-> <<>>]

\* r with the nodes ns put in front, unless r is an exception
Prepend(ns, r) == IF r.outcome = "ok" THEN Ok(ns \o r.body) ELSE r

RECURSIVE BlockEnd(_, _, _)
\* last line of the indented block that follows header line i: the last
\* indented line of the run of indented or blank lines after it (i if none)
BlockEnd(L, j, last) ==
    IF j > Len(L) THEN last
    ELSE IF IsBlank(L[j]) THEN BlockEnd(L, j + 1, last)
    ELSE IF L[j][1] = SP THEN BlockEnd(L, j + 1, j)
    ELSE last

\* the statement of non-blank line ln read at the block's indentation (ind:
\* one space; otherwise none), "?" when the line is indented otherwise
LineStmt(ln, ind) ==
    IF ind THEN (IF ln[1] = SP THEN Stmt(Tail(ln)) ELSE "?")
    ELSE (IF ln[1] = SP THEN "?" ELSE Stmt(ln))

RECURSIVE NextNonBlank(_, _, _)
\* the first line of j..e that is not blank (e + 1 if none)
NextNonBlank(L, j, e) ==
    IF j > e THEN e + 1
    ELSE IF IsBlank(L[j]) THEN NextNonBlank(L, j + 1, e)
    ELSE j

\* whether clause a may follow the clauses seen of a try statement: except
\* clauses all of one kind, then at most one finally
MayFollow(seen, a) ==
    /\ ~(seen # <<>> /\ seen[Len(seen)] = Finally)
    /\ \/ a \in ExceptAtoms /\ (\A m \in 1..Len(seen) : seen[m] = a)
       \/ a = Finally

\* the clause at line k of a block that ends at line e ("?" if k is past e)
ClauseAt(L, k, e, ind) == IF k > e THEN "?" ELSE LineStmt(L[k], ind)

RECURSIVE TryClauses(_, _, _, _, _, _)
RECURSIVE TryClausesAt(_, _, _, _, _, _)
\* the clauses that follow  try: pass  within lines j..e; seen: the clauses
\* so far, last: the line of the last of them
TryClauses(L, j, e, ind, seen, last) ==
    TryClausesAt(L, NextNonBlank(L, j, e), e, ind, seen, last)

\* the same, k being the next line that is not blank
TryClausesAt(L, k, e, ind, seen, last) ==
    IF MayFollow(seen, ClauseAt(L, k, e, ind))
    THEN TryClauses(L, k + 1, e, ind, Append(seen, ClauseAt(L, k, e, ind)), k)
    ELSE [clauses |-> seen, last |-> last]

\* the Try (or, with except*, TryStar) node of a try statement at line i
TryNode(i, t) ==
    [type |-> IF t.clauses[1] = "except* E: pass" THEN "TryStar" ELSE "Try",
     name |-> None, lineno |-> i, end_lineno |-> t.last, body |-> <<>>,
     sub |-> [k \in 1..Cardinality({m \in 1..Len(t.clauses) : t.clauses[m] \in ExceptAtoms})
                |-> Inner("ExceptHandler", 0, <<>>, i)],
     names |-> <<>>, module |-> None, nvalues |-> 0]

\* one step of a parse: the nodes read (none or one), the line to go on
\* from, and whether a decorator is waiting; or the exception raised
Step(nodes, next, deco) ==
    [outcome |-> "ok", nodes |-> nodes, next |-> next, deco |-> deco]
Fail(exc) == [outcome |-> exc, nodes |-> <<>>, next |-> 0, deco |-> FALSE]

\* a try statement at line i whose clauses are t
TryStep(i, t) ==
    IF t.clauses = <<>> THEN Fail("SyntaxError")
    ELSE Step(<<TryNode(i, t)>>, t.last + 1, FALSE)

\* statement a at line j of a block that ends at line e: a one-line
\* statement or a try statement
BodyStmt(L, j, e, a) ==
    IF a = TryAtom THEN TryStep(j, TryClauses(L, j + 1, e, TRUE, <<>>, j))
    ELSE IF a \in SimpleAtoms THEN Step(<<Node(a, j, j, <<>>)>>, j + 1, FALSE)
    ELSE Fail("SyntaxError")

BodyStep(L, j, e) ==
    IF IsBlank(L[j]) THEN Step(<<>>, j + 1, FALSE)
    ELSE BodyStmt(L, j, e, Stmt(Tail(L[j])))

RECURSIVE ParseBody(_, _, _)
RECURSIVE BodyRest(_, _, _)
\* the statements of the block lines j..e
ParseBody(L, j, e) ==
    IF j > e THEN Ok(<<>>) ELSE BodyRest(L, e, BodyStep(L, j, e))

\* the block from step st on
BodyRest(L, e, st) ==
    IF st.outcome # "ok" THEN Raised(st.outcome)
    ELSE Prepend(st.nodes, ParseBody(L, st.next, e))

\* header a at line i with its block, which ends at line e and holds kids
BlockStep(a, i, e, kids) ==
    IF e = i THEN Fail("SyntaxError")
    ELSE IF kids.outcome # "ok" THEN Fail(kids.outcome)
    ELSE Step(<<Node(a, i, e, kids.body)>>, e + 1, FALSE)

\* header a at line i, its block ending at line e
HeaderStep(L, a, i, e) == BlockStep(a, i, e, ParseBody(L, i + 1, e))

\* top-level statement a at line i; deco: a decorator is waiting for its
\* definition
TopStmt(L, i, deco, a) ==
    IF L[i][1] = SP THEN Fail("SyntaxError")
    ELSE IF a = "@dec" THEN Step(<<>>, i + 1, TRUE)
    ELSE IF deco /\ a \notin DefAtoms THEN Fail("SyntaxError")
    ELSE IF a = Deep THEN Fail("MemoryError")
    ELSE IF a = TryAtom
    THEN TryStep(i, TryClauses(L, i + 1, Len(L), FALSE, <<>>, i))
    ELSE IF a \in HeaderAtoms THEN HeaderStep(L, a, i, BlockEnd(L, i + 1, i))
    ELSE IF a \in SimpleAtoms THEN Step(<<Node(a, i, i, <<>>)>>, i + 1, FALSE)
    ELSE Fail("SyntaxError")

TopStep(L, i, deco) ==
    IF IsBlank(L[i]) THEN Step(<<>>, i + 1, deco)
    ELSE TopStmt(L, i, deco, Stmt(L[i]))

RECURSIVE ParseTop(_, _, _)
RECURSIVE TopRest(_, _)
\* the top-level statements from line i on.  The first error in line order
\* is the one raised.
ParseTop(L, i, deco) ==
    IF i > Len(L) THEN (IF deco THEN Raised("SyntaxError") ELSE Ok(<<>>))
    ELSE TopRest(L, TopStep(L, i, deco))

\* the file from step st on
TopRest(L, st) ==
    IF st.outcome # "ok" THEN Raised(st.outcome)
    ELSE Prepend(st.nodes, ParseTop(L, st.next, st.deco))

\* ast.parse(content): [outcome |-> "ok", body |-> tree.body], or the
\* exception raised
ast_parse(content) == ParseTop(PhysLines(content), 1, FALSE)

\* ast.iter_child_nodes(node): the statements of its body, then its handlers
\* or expressions
Kids(node) == node.body \o node.sub

RECURSIVE Walk(_)
\* the loop of ast.walk over its queue: pop the first node, queue its
\* children, yield it
Walk(todo) ==
    IF todo = <<>> THEN <<>>
    ELSE <<Head(todo)>> \o Walk(Tail(todo) \o Kids(Head(todo)))

\* ast.walk(tree): breadth first, every node below the module
ast_walk(body) == Walk(body)

\* ast.get_docstring(node_or_module): the first statement of the body when it
\* is a string literal
ast_get_docstring(body) ==
    IF body # <<>> /\ body[1].type = "Expr" THEN "doc" ELSE None

\* --------------------------------------------------------- the program
\* os.path.splitext(path)[1].lower()
Lower(ext) ==
    CASE ext = ".PY" -> ".py"
      [] ext = ".Rb" -> ".rb"
      [] ext = ".JS" -> ".js"
      [] OTHER       -> ext

detect_language(path, content) ==
    LET ext == Lower(path.ext) IN
    CASE ext = ".py"   -> "python"
      [] ext = ".js"   -> "javascript"
      [] ext = ".ts"   -> "typescript"
      [] ext = ".java" -> "java"
      [] ext = ".cpp"  -> "cpp"
      [] ext = ".c"    -> "c"
      [] ext = ".go"   -> "go"
      [] ext = ".rb"   -> "ruby"
      [] ext = ".php"  -> "php"
      [] OTHER         -> "unknown"

Max(a, b) == IF a >= b THEN a ELSE b

\* what one node adds to count in the loop of compute_cyclomatic
BranchWeight(node) ==
    (IF node.type \in {"If", "For", "While", "AsyncFor", "IfExp", "Try",
                       "ExceptHandler"} THEN 1 ELSE 0)
    + (IF node.type = "BoolOp" THEN Max(0, node.nvalues - 1) ELSE 0)

RECURSIVE CountBranches(_)
CountBranches(nodes) ==
    IF nodes = <<>> THEN 0
    ELSE BranchWeight(Head(nodes)) + CountBranches(Tail(nodes))

\* ast.parse fails with any exception: 1
compute_cyclomatic(code) ==
    LET tree == ast_parse(code) IN
    IF tree.outcome # "ok" THEN 1
    ELSE 1 + CountBranches(ast_walk(tree.body))

\* hashlib.sha1(f"{path}:{name}:{start}:{end}"): the digest is modelled by the
\* tuple it is computed from
Sha1(path, name, start, end) == <<path, name, start, end>>

\* a faulty EstimateEnd: the lines of the code counted instead of its newlines
EstimateEnd_lines(start, code) == start + Len(splitlines(code))

\* a faulty EstimateEnd: the start line left out of the estimate
EstimateEnd_nostart(start, code) == CountNL(code)

\* make_chunk's estimate of an absent end: end = start + code.count("\n")
EstimateEnd(start, code) == start + CountNL(code)

make_chunk(path, typ, name, start0, end0, code, imports, doc, lang) ==
    LET start == IF start0 = Absent \/ start0 = Some(0) THEN 1 ELSE start0[1]
        end   == IF end0 = Absent THEN EstimateEnd(start, code) ELSE end0[1]
    IN  [id         |-> Sha1(path, name, start, end),
         file_path  |-> path,
         language   |-> IF lang = None \/ lang = "" THEN "unknown" ELSE lang,
         type       |-> typ,
         name       |-> name,
         start_line |-> start,
         end_line   |-> end,
         loc        |-> Max(1, end - start + 1),
         size       |-> Len(code),
         complexity |-> IF lang = "python" THEN Some(compute_cyclomatic(code)) ELSE Absent,
         imports    |-> imports,
         docstring  |-> doc,
         code       |-> code]

\* get_source_segment: ast.get_source_segment gives the text from the first
\* column of line lineno to the end of the statement on line end_lineno; the
\* line-slicing fallback is taken when that text is empty
get_source_segment(source, node) ==
    LET phys == PhysLines(source)
        seg  == JoinNL(SubSeq(phys, node.lineno, node.end_lineno))
        lines == splitlines(source)
        start == Max(0, node.lineno - 1)
    IN  IF seg # <<>> THEN seg
        ELSE JoinNL(SubSeq(lines, start + 1, node.end_lineno))

IsDecl(node) == node.type \in {"FunctionDef", "AsyncFunctionDef", "ClassDef"}

\* remove_ranges of get_module_level_code: (s, e) per top-level declaration
RemoveRanges(body) ==
    {<<body[k].lineno - 1, body[k].end_lineno>> : k \in {j \in 1..Len(body) : IsDecl(body[j])}}

RECURSIVE KeepLines(_, _, _)
\* the lines whose 0-based index i lies in no range
KeepLines(lines, i, ranges) ==
    IF i >= Len(lines) THEN <<>>
    ELSE (IF \E r \in ranges : r[1] <= i /\ i < r[2] THEN <<>> ELSE <<lines[i + 1]>>)
         \o KeepLines(lines, i + 1, ranges)

get_module_level_code(source, body) ==
    JoinNL(KeepLines(splitlines(source), 0, RemoveRanges(body)))

\* a faulty ImportRefs: the module of a from-import left out
ImportRefs_nomod(node) ==
    IF node.type \in {"Import", "ImportFrom"} THEN node.names ELSE <<>>

\* what one node adds to imports: alias.name for an Import, mod.name (name
\* alone when there is no module) for an ImportFrom
ImportRefs(node) ==
    IF node.type = "Import" THEN node.names
    ELSE IF node.type = "ImportFrom"
    THEN LET mod == IF node.module = None THEN "" ELSE node.module IN
         [k \in 1..Len(node.names) |->
             IF mod # "" THEN mod \o "." \o node.names[k] ELSE node.names[k]]
    ELSE <<>>

RECURSIVE CollectImports(_)
CollectImports(nodes) ==
    IF nodes = <<>> THEN <<>>
    ELSE ImportRefs(Head(nodes)) \o CollectImports(Tail(nodes))

\* a faulty TopLevelDecls: the whole tree walked instead of tree.body
TopLevelDecls_walk(body) == SelectSeq(ast_walk(body), IsDecl)

\* the nodes the loop over tree.body of parse_python makes chunks of
TopLevelDecls(body) == SelectSeq(body, IsDecl)

\* the body of that loop: the chunk of declaration node
DeclChunk(path, content, node, imports) ==
    make_chunk(path,
               IF node.type = "ClassDef" THEN "class" ELSE "function",
               node.name, Some(node.lineno), Some(node.end_lineno),
               get_source_segment(content, node), imports,
               ast_get_docstring(node.body), "python")

Return(v) == [exc |-> None, value |-> v]
Raise(e)  == [exc |-> e, value |-> <<>>]

parse_python(path, content) ==
    LET tree == ast_parse(content) IN
    IF tree.outcome = "SyntaxError"
    THEN Return(<<make_chunk(path, "module", None, Some(1), Absent, content, <<>>, None, "python")>>)
    ELSE IF tree.outcome # "ok" THEN Raise(tree.outcome)
    ELSE LET imports == CollectImports(ast_walk(tree.body))
             decls == TopLevelDecls(tree.body)
             chunks == [k \in 1..Len(decls) |-> DeclChunk(path, content, decls[k], imports)]
             module_code == get_module_level_code(content, tree.body)
         IN  IF ~StripIsEmpty(module_code)
             THEN Return(<<make_chunk(path, "module", None, Some(1), Absent, module_code,
                                      imports, ast_get_docstring(tree.body), "python")>>
                         \o chunks)
             ELSE Return(chunks)

\* ------------------------------------------------ the generic heuristics
Quotes == {"'", QUOTE}

RECURSIVE SkipWhile(_, _, _)
\* the first position q >= p of s whose atom is not in set (Len(s) + 1 if none)
SkipWhile(s, p, set) ==
    IF p <= Len(s) /\ s[p] \in set THEN SkipWhile(s, p + 1, set) ELSE p

RECURSIVE SkipUntil(_, _, _)
\* the first position q >= p of s whose atom is in set (Len(s) + 1 if none)
SkipUntil(s, p, set) ==
    IF p <= Len(s) /\ s[p] \notin set THEN SkipUntil(s, p + 1, set) ELSE p

\* ^ under re.MULTILINE
AtLineStart(s, p) == p = 1 \/ s[p - 1] = NL

NoMatch == [ok |-> FALSE, groups |-> <<>>, end |-> 0]

\* r"^\s*(?:#|//)?\s*(import|require|using)\s+([^\s;'\"]+)" tried at p.
\* Every quantifier is followed by an atom it cannot itself match, so the
\* greedy choice is the only one.
MatchGeneric(s, p) ==
    LET p1 == SkipWhile(s, p, Whitespace)
        p2 == IF p1 <= Len(s) /\ s[p1] = "#" THEN p1 + 1
              ELSE IF p1 + 1 <= Len(s) /\ s[p1] = "/" /\ s[p1 + 1] = "/" THEN p1 + 2
              ELSE p1
        p3 == SkipWhile(s, p2, Whitespace)
        p4 == SkipWhile(s, p3 + 1, Whitespace)
        p5 == SkipUntil(s, p4, Whitespace \cup {";"} \cup Quotes)
    IN  IF /\ AtLineStart(s, p)
           /\ p3 <= Len(s) /\ s[p3] \in {"import", "require", "using"}
           /\ p4 > p3 + 1
           /\ p5 > p4
        THEN [ok |-> TRUE, groups |-> <<s[p3], SubSeq(s, p4, p5 - 1)>>, end |-> p5]
        ELSE NoMatch

RECURSIVE LastTail(_, _, _, _)
\* ".*" followed by the atoms of lead, a quote, "[^'\"]+" and a quote, then the
\* atoms of close: .* runs from p within the line and gives back atoms until
\* the rest matches, so the rightmost start k >= p of lead that works is taken
LastTail(s, k, p, pat) ==
    IF k < p THEN NoMatch
    ELSE LET n == Len(pat.lead)
             q == k + n
             t == SkipUntil(s, q + 1, Quotes)
             c == Len(pat.close)
         IN  IF /\ q <= Len(s)
                /\ SubSeq(s, k, q - 1) = pat.lead
                /\ s[q] \in Quotes
                /\ t > q + 1 /\ t <= Len(s)
                /\ t + c <= Len(s) /\ SubSeq(s, t + 1, t + c) = pat.close
             THEN [ok |-> TRUE, groups |-> <<SubSeq(s, q + 1, t - 1)>>, end |-> t + c + 1]
             ELSE LastTail(s, k - 1, p, pat)

\* one alternative of the JavaScript pattern: word, a space, ".*", the tail
MatchAlt(s, p, pat) ==
    IF p + 1 <= Len(s) /\ s[p] = pat.word /\ s[p + 1] = SP
    THEN LastTail(s, SkipUntil(s, p + 2, {NL}), p + 2, pat)
    ELSE NoMatch

EsImport == [word |-> "import", lead |-> <<SP, "from", SP>>, close |-> <<>>]
CjsRequire == [word |-> "const", lead |-> <<SP, "=", SP, "require", "(">>, close |-> <<")">>]

\* r"^\s*(?:import .* from ['\"]([^'\"]+)['\"]|const .* = require\(['\"]([^'\"]+)['\"]\))"
\* tried at p; the groups are (es-module name, commonjs name), the unmatched
\* one empty
MatchJs(s, p) ==
    LET p1 == SkipWhile(s, p, Whitespace)
        es == MatchAlt(s, p1, EsImport)
        cjs == MatchAlt(s, p1, CjsRequire)
    IN  IF ~AtLineStart(s, p) THEN NoMatch
        ELSE IF es.ok THEN [es EXCEPT !.groups = <<es.groups[1], <<>>>>]
        ELSE IF cjs.ok THEN [cjs EXCEPT !.groups = << <<>>, cjs.groups[1]>>]
        ELSE NoMatch

RECURSIVE FindAll(_, _, _)
\* re.findall: the group tuples of the successive non-overlapping matches
FindAll(s, p, js) ==
    IF p > Len(s) THEN <<>>
    ELSE LET m == IF js THEN MatchJs(s, p) ELSE MatchGeneric(s, p) IN
         IF m.ok THEN <<m.groups>> \o FindAll(s, m.end, js)
         ELSE FindAll(s, p + 1, js)

RECURSIVE FlattenNonEmpty(_)
\* [x for tup in imports for x in tup if x]
FlattenNonEmpty(tups) ==
    IF tups = <<>> THEN <<>>
    ELSE SelectSeq(Head(tups), LAMBDA x : x # <<>>) \o FlattenNonEmpty(Tail(tups))

\* [t[1] for t in imports]: findall gives (keyword, token) pairs here
SecondOfEach(tups) == [k \in 1..Len(tups) |-> tups[k][2]]

generic_parse(path, content, lang) ==
    LET imports == IF lang \in {"javascript", "typescript"}
                   THEN FlattenNonEmpty(FindAll(content, 1, TRUE))
                   ELSE SecondOfEach(FindAll(content, 1, FALSE))
    IN  Return(<<make_chunk(path, "module", None, Some(1), Absent, content, imports, None, lang)>>)

\* entry.get(key, default)
Get(entry, key, default) == IF key \in DOMAIN entry THEN entry[key] ELSE default

UnknownPath == [stem |-> "<unknown>", ext |-> ""]

\* a faulty parse_file: every file is sent to parse_python
parse_file_allpython(entry) ==
    parse_python(Get(entry, "path", UnknownPath), Get(entry, "content", <<>>))

parse_file(entry) ==
    LET path == Get(entry, "path", UnknownPath)
        content == Get(entry, "content", <<>>)
        lang == detect_language(path, content)
    IN  IF lang = "python" THEN parse_python(path, content)
        ELSE generic_parse(path, content, lang)

\* ------------------------------------------------------------ the inputs
SeqsUpTo(S, n) == UNION {[1..k -> S] : k \in 0..n}

\* the lines of the Python subset: top-level lines and indented block lines
TopLines == { <<>>, <<"x = 1">>, FfLine, <<"import os">>,
              <<"'doc'">>, <<"def f(): pass">>, <<"async def h(): pass">>,
              <<"def f():">>, <<"class A:">>, <<"if c:">>, <<"@dec">>, <<Deep>> }
BodyLines == { <<SP, "x = 1">>, <<SP>> \o FfLine, <<SP, "def f(): pass">> }
PyLine == TopLines \cup BodyLines

RECURSIVE Render(_)
\* the text of a file whose lines each end in a newline
Render(ls) == IF ls = <<>> THEN <<>> ELSE Head(ls) \o <<NL>> \o Render(Tail(ls))

PyContents == {Render(ls) : ls \in SeqsUpTo(PyLine, MaxLines)}

GenChars == {"require", "j", SP, NL, "#", "/", ";", QUOTE}
GenContents == SeqsUpTo(GenChars, MaxGen)

Path(stem, ext) == [stem |-> stem, ext |-> ext]
Entry(path, content) == [path |-> path, content |-> content]

RubyJson == <<"require", SP, QUOTE, "j", QUOTE>>          \* require "json"
JsExamples == { <<"import", SP, "j", SP, "from", SP, QUOTE, "j", QUOTE, ";", NL>>,
                <<"const", SP, "j", SP, "=", SP, "require", "(", "'", "j", "'", ")">>,
                <<"import", SP, "from", SP, "from", SP, QUOTE, "j", QUOTE, SP, "from", SP, QUOTE, NL>> }

\* files of import statements, some of them inside a function
ImportLines == { <<"import os">>, <<"import a.b as c">>, <<"import os, sys">>,
                 <<"from x import y">>, <<"from . import y">>, <<"def f():">>,
                 <<SP, "from x import y">>, <<SP, "import os, sys">> }
ImportContents == {Render(ls) : ls \in SeqsUpTo(ImportLines, MaxImp)}

\* files of the statements compute_cyclomatic looks for
BranchLines == { <<"for i in y: pass">>, <<"while c: pass">>,
                 <<"async for i in y: pass">>, <<"x = 1 if c else 2">>,
                 <<"x = a and b and c">>, <<"x = a and b or c">>,
                 <<TryAtom>>, <<"except E: pass">>, <<"except* E: pass">>,
                 <<Finally>>, <<"def f():">>, <<"if c:">>,
                 <<SP, TryAtom>>, <<SP, "except E: pass">>,
                 <<SP, "x = a and b and c">> }
BranchContents == {Render(ls) : ls \in SeqsUpTo(BranchLines, MaxBr)}

PyEntries  == {Entry(Path("a", ".py"), c) :
                  c \in PyContents \cup ImportContents \cup BranchContents}
GenEntries == {Entry(Path("b", ".rb"), c) : c \in GenContents \cup {RubyJson}}
OtherEntries ==
    {Entry(Path("c", ext), c) : ext \in {".js", ".ts"}, c \in JsExamples}
    \cup {Entry(Path("A", ".PY"), Render(<<<<"import os">>, <<"def f(): pass">>>>))}
    \cup {Entry(Path("d", ext), <<"import", SP, "j", ";", NL, "/", "/", SP, "using", SP, "j">>) :
             ext \in {".txt", "", ".java", ".Rb"}}
    \cup {[path |-> Path("a", ".py")], [content |-> Render(<<<<"x = 1">>>>)]}

\* the files a multi-file ingest is drawn from
Pool == { Entry(Path("a", ".py"), Render(<<<<"import os">>, <<"def f():">>, <<SP, "x = 1">>>>)),
          Entry(Path("a", ".py"), Render(<<<<"def f():">>>>)),
          Entry(Path("a", ".py"), Render(<<<<Deep>>>>)),
          Entry(Path("a", ".py"), <<>>),
          Entry(Path("b", ".rb"), <<"require", SP, "j", NL>>) }

Inputs == {<<e>> : e \in PyEntries \cup GenEntries \cup OtherEntries}
          \cup {es \in SeqsUpTo(Pool, MaxEntries) : Len(es) # 1}

\* ------------------------------------------------------------- the state
VARIABLES
    ingested_json,  \* the ingested file list parse_all reads
    pc,             \* where parse_all is: "load", "loop", "done", "raised"
    entries,        \* parse_all's entries
    idx,            \* 1-based position of the for loop in entries
    chunks,         \* parse_all's chunks: what the last parse_file returned
    all_chunks,     \* parse_all's accumulator
    out_file,       \* processed_chunks.json (Absent until written)
    exc             \* the exception that left parse_all (None if none)

\* chroma_store.py: load_embeddings and clean_embeddings
VARIABLES
    data_file,      \* the list in the embeddings file load_embeddings reads
    data,           \* clean_embeddings' data
    item_i,         \* 0-based index i of the enumerate loop
    cleaned,        \* clean_embeddings' cleaned
    seen_ids,       \* clean_embeddings' seen_ids
    store_pc        \* "idle", "start", "clean", "returned"

\* main.py and code_embedder.py
VARIABLES
    chunks_json,     \* the list in processed_chunks.json
    bad_texts,       \* the texts the encoder fails on
    batch_size,      \* self.batch_size
    embed_pc,        \* "idle", "start", "loaded", "batches", "generated", "raised"
    code_snippets,   \* what load_parsed_code returned
    batch_start,     \* 0-based start of the next batch
    written,         \* generate_embeddings' written
    skipped,         \* generate_embeddings' skipped
    first_write,     \* generate_embeddings' first_write
    embeddings_json, \* the text of the output file (Absent until opened)
    embeddings,      \* main's embeddings: what generate_embeddings returned
    embed_exc        \* the exception that left main (None if none)

parserVars == <<ingested_json, pc, entries, idx, chunks, all_chunks, out_file, exc>>
storeVars == <<data_file, data, item_i, cleaned, seen_ids, store_pc>>
embedVars == <<chunks_json, bad_texts, batch_size, embed_pc, code_snippets,
               batch_start, written, skipped, first_write, embeddings_json,
               embeddings, embed_exc>>

vars == <<parserVars, storeVars, embedVars>>

\* the programs that a specification leaves out have not been started
ParserIdle ==
    /\ ingested_json = <<>> /\ pc = "idle" /\ entries = <<>> /\ idx = 0
    /\ chunks = <<>> /\ all_chunks = <<>> /\ out_file = Absent /\ exc = None

StoreIdle ==
    /\ data_file = <<>> /\ data = <<>> /\ item_i = 0 /\ cleaned = <<>>
    /\ seen_ids = {} /\ store_pc = "idle"

EmbedIdle ==
    /\ chunks_json = <<>> /\ bad_texts = {} /\ batch_size = 1
    /\ embed_pc = "idle" /\ code_snippets = <<>> /\ batch_start = 0
    /\ written = 0 /\ skipped = 0 /\ first_write = TRUE
    /\ embeddings_json = Absent /\ embeddings = Absent /\ embed_exc = None

Init ==
    /\ ingested_json \in Inputs
    /\ pc = "load"
    /\ entries = <<>>
    /\ idx = 0
    /\ chunks = <<>>
    /\ all_chunks = <<>>
    /\ out_file = Absent
    /\ exc = None
    /\ StoreIdle
    /\ EmbedIdle

\* entries = self.load_ingested(); all_chunks = []
Load ==
    /\ pc = "load"
    /\ entries' = ingested_json
    /\ idx' = 1
    /\ pc' = "loop"
    /\ UNCHANGED <<ingested_json, chunks, all_chunks, out_file, exc>>
    /\ UNCHANGED <<storeVars, embedVars>>

\* one turn of the loop: chunks = self.parse_file(e); all_chunks.extend(chunks)
ParseEntry ==
    /\ pc = "loop"
    /\ idx <= Len(entries)
    /\ LET r == parse_file(entries[idx]) IN
       /\ r.exc = None
       /\ chunks' = r.value
       /\ all_chunks' = all_chunks \o r.value
    /\ idx' = idx + 1
    /\ UNCHANGED <<ingested_json, pc, entries, out_file, exc>>
    /\ UNCHANGED <<storeVars, embedVars>>

\* parse_file raises: the exception leaves parse_all, nothing is written
ParseRaises ==
    /\ pc = "loop"
    /\ idx <= Len(entries)
    /\ LET r == parse_file(entries[idx]) IN
       /\ r.exc # None
       /\ exc' = r.exc
    /\ pc' = "raised"
    /\ UNCHANGED <<ingested_json, entries, idx, chunks, all_chunks, out_file>>
    /\ UNCHANGED <<storeVars, embedVars>>

\* after the loop: json.dump(all_chunks, f); return all_chunks
Save ==
    /\ pc = "loop"
    /\ idx > Len(entries)
    /\ out_file' = Some(all_chunks)
    /\ pc' = "done"
    /\ UNCHANGED <<ingested_json, entries, idx, chunks, all_chunks, exc>>
    /\ UNCHANGED <<storeVars, embedVars>>

Next == Load \/ ParseEntry \/ ParseRaises \/ Save

Spec == Init /\ [][Next]_vars

\* ------------------------------------------- chroma_store.py: the values
\* a JSON value of a metadata dict, by its Python type
StrV(s)  == [t |-> "str", s |-> s]
IntV(n)  == [t |-> "int", n |-> n]
ListV(l) == [t |-> "list", l |-> l]
NoneV    == [t |-> "none"]

\* json.dumps of a list of strings: ["a", "b"]
RECURSIVE JoinQuoted(_)
JoinQuoted(l) ==
    IF l = <<>> THEN ""
    ELSE IF Len(l) = 1 THEN "\"" \o l[1] \o "\""
    ELSE "\"" \o l[1] \o "\", " \o JoinQuoted(Tail(l))

json_dumps(l) == "[" \o JoinQuoted(l) \o "]"

\* the body of the loop over meta.items(): the value made safe for Chroma
SafeValue(v) ==
    IF v.t = "list" THEN json_dumps(v.l)
    ELSE IF v.t = "none" THEN "None"
    ELSE IF v.t = "int" THEN ToString(v.n)
    ELSE v.s

\* meta = item.get("metadata", {}) and the loop that fills safe_meta
SafeMeta(item) ==
    IF "metadata" \in DOMAIN item
    THEN [k \in DOMAIN item.metadata |-> SafeValue(item.metadata[k])]
    ELSE <<>>

\* the test that skips an item: "vector" not in item or not item["vector"]
HasVector(item) == "vector" \in DOMAIN item /\ item.vector # <<>>

\* base_id = item.get("path", f"id_{i}"), i counted from 0
BaseId(item, i) ==
    IF "path" \in DOMAIN item THEN item.path ELSE "id_" \o ToString(i)

\* uuid.uuid4().hex[:8]: eight hexadecimal digits the caller does not choose
Suffixes == {"0000000a", "0000000b"}

\* unique_id: the base id when it is new, else the base id with a suffix u
UniqueId(base_id, seen, u) ==
    IF base_id \in seen THEN base_id \o "_" \o u ELSE base_id

\* ------------------------------------------- chroma_store.py: the inputs
Meta == [language |-> StrV("python"), imports |-> ListV(<<"os", "x.y">>),
         name |-> NoneV, loc |-> IntV(3)]

Items == {[path |-> "p", vector |-> <<1>>, metadata |-> Meta],
          [path |-> "p", vector |-> <<>>, metadata |-> Meta],
          [path |-> "q", metadata |-> Meta],
          [vector |-> <<2>>],
          [path |-> "p_0000000a", vector |-> <<3>>],
          [path |-> "id_1", vector |-> <<4>>]}

StoreInputs == SeqsUpTo(Items, MaxItems)

\* ------------------------------------- chroma_store.py: the state machine
StoreInit ==
    /\ data_file \in StoreInputs
    /\ data = <<>> /\ item_i = 0 /\ cleaned = <<>> /\ seen_ids = {}
    /\ store_pc = "start"
    /\ ParserIdle
    /\ EmbedIdle

\* data = load_embeddings(json_path); clean_embeddings is entered
load_embeddings ==
    /\ store_pc = "start"
    /\ data' = data_file
    /\ item_i' = 0
    /\ cleaned' = <<>>
    /\ seen_ids' = {}
    /\ store_pc' = "clean"
    /\ UNCHANGED data_file
    /\ UNCHANGED <<parserVars, embedVars>>

\* one turn of the loop on an item without a usable vector: continue
CleanSkip ==
    /\ store_pc = "clean"
    /\ item_i < Len(data)
    /\ ~HasVector(data[item_i + 1])
    /\ item_i' = item_i + 1
    /\ UNCHANGED <<data_file, data, cleaned, seen_ids, store_pc>>
    /\ UNCHANGED <<parserVars, embedVars>>

\* one turn of the loop on an item with a vector: the record is appended
CleanKeep ==
    /\ store_pc = "clean"
    /\ item_i < Len(data)
    /\ HasVector(data[item_i + 1])
    /\ \E u \in Suffixes :
          /\ seen_ids' = seen_ids \cup
                {UniqueId(BaseId(data[item_i + 1], item_i), seen_ids, u)}
          /\ cleaned' = Append(cleaned,
                [id |-> UniqueId(BaseId(data[item_i + 1], item_i), seen_ids, u),
                 embedding |-> data[item_i + 1].vector,
                 metadata |-> SafeMeta(data[item_i + 1])])
    /\ item_i' = item_i + 1
    /\ UNCHANGED <<data_file, data, store_pc>>
    /\ UNCHANGED <<parserVars, embedVars>>

\* return cleaned
CleanReturn ==
    /\ store_pc = "clean"
    /\ item_i = Len(data)
    /\ store_pc' = "returned"
    /\ UNCHANGED <<data_file, data, item_i, cleaned, seen_ids>>
    /\ UNCHANGED <<parserVars, embedVars>>

StoreNext == load_embeddings \/ CleanSkip \/ CleanKeep \/ CleanReturn

StoreSpec == StoreInit /\ [][StoreNext]_vars

\* ------------------------------------------ code_embedder.py: the values
\* str.strip(): leading and trailing whitespace removed
RECURSIVE LStrip(_)
LStrip(s) == IF s # <<>> /\ Head(s) \in Whitespace THEN LStrip(Tail(s)) ELSE s

RECURSIVE RStrip(_)
RStrip(s) ==
    IF s # <<>> /\ s[Len(s)] \in Whitespace
    THEN RStrip(SubSeq(s, 1, Len(s) - 1))
    ELSE s

Strip(s) == RStrip(LStrip(s))

\* snippet.get(key) of a text key; None and "" are both falsy in the or
\* chains below, so a missing key reads as the empty text
GetText(snippet, key) ==
    IF key \in DOMAIN snippet THEN snippet[key] ELSE <<>>

\* snippet.get(key) of a string key, "" standing for the falsy values
GetStr(snippet, key) ==
    IF key \in DOMAIN snippet THEN snippet[key] ELSE ""

\* meta.get(key): the value, or None
GetOpt(snippet, key) ==
    IF key \in DOMAIN snippet THEN Some(snippet[key]) ELSE Absent

\* code or content or body or text or "", stripped
_extract_text(snippet) ==
    Strip(IF GetText(snippet, "code") # <<>> THEN GetText(snippet, "code")
          ELSE IF GetText(snippet, "content") # <<>>
               THEN GetText(snippet, "content")
          ELSE IF GetText(snippet, "body") # <<>> THEN GetText(snippet, "body")
          ELSE GetText(snippet, "text"))

\* file_path or path or filepath or ""
_get_path(snippet) ==
    IF GetStr(snippet, "file_path") # "" THEN GetStr(snippet, "file_path")
    ELSE IF GetStr(snippet, "path") # "" THEN GetStr(snippet, "path")
    ELSE GetStr(snippet, "filepath")

\* id or sha1(path).hexdigest(): the digest is kept as a term over the path
_get_id(snippet) ==
    IF GetStr(snippet, "id") # "" THEN GetStr(snippet, "id")
    ELSE "sha1(" \o _get_path(snippet) \o ")"

\* self.model.encode(text).tolist(): the vector is a function of the text
encode(text) == [embedding_of |-> text]

\* obj: the object written for a snippet whose text was encoded
EmbeddingObject(meta) ==
    [id       |-> _get_id(meta),
     path     |-> _get_path(meta),
     vector   |-> encode(_extract_text(meta)),
     metadata |-> [language |-> GetOpt(meta, "language"),
                   type     |-> GetOpt(meta, "type"),
                   name     |-> GetOpt(meta, "name"),
                   imports  |-> GetOpt(meta, "imports"),
                   loc      |-> GetOpt(meta, "loc"),
                   size     |-> GetOpt(meta, "size")]]

\* the pieces of text the two writers put into the output file
Piece(s)   == [t |-> s]
ObjPiece(o) == [t |-> "object", obj |-> o]
NumPiece(n) == [t |-> "number", num |-> n]

\* json.load of the pieces between "[\n" and "\n]\n": objects separated by
\* commas, or nothing
ValidItems(mid) ==
    \/ mid = <<>>
    \/ /\ Len(mid) % 2 = 1
       /\ \A k \in 1..Len(mid) :
             mid[k].t = (IF k % 2 = 1 THEN "object" ELSE ",\n")

ItemsOf(mid) == [k \in 1..((Len(mid) + 1) \div 2) |-> mid[2 * k - 1].obj]

\* json.load of a file: the kind of value it holds, and the value
json_load(file) ==
    IF Len(file) = 1 /\ file[1].t = "number"
    THEN [kind |-> "number", items |-> <<>>, num |-> file[1].num]
    ELSE IF /\ Len(file) >= 2
            /\ file[1].t = "[\n"
            /\ file[Len(file)].t = "\n]\n"
            /\ ValidItems(SubSeq(file, 2, Len(file) - 1))
    THEN [kind |-> "array",
          items |-> ItemsOf(SubSeq(file, 2, Len(file) - 1)), num |-> 0]
    ELSE [kind |-> "invalid", items |-> <<>>, num |-> 0]

\* a snippet that gets an object: its text is not empty (line 109) and the
\* encoder gives a vector for it (lines 121, 128 and 136)
Encodable(snippet) ==
    /\ _extract_text(snippet) # <<>>
    /\ _extract_text(snippet) \notin bad_texts

\* the loop of lines 135-160 on the snippets of a batch that got a vector
RECURSIVE WriteObjects(_, _, _)
WriteObjects(file, metas, first) ==
    IF metas = <<>> THEN file
    ELSE WriteObjects(
            (IF first THEN file ELSE Append(file, Piece(",\n")))
                \o <<ObjPiece(EmbeddingObject(Head(metas)))>>,
            Tail(metas), FALSE)

\* batch = code_snippets[batch_start : batch_start + self.batch_size]
Batch(snippets, start, size) ==
    SubSeq(snippets, start + 1,
           IF start + size < Len(snippets) THEN start + size ELSE Len(snippets))

\* ------------------------------------------ code_embedder.py: the inputs
Snippets ==
    {[id |-> "i1", file_path |-> "a.py", code |-> <<"x">>,
      language |-> "python", type |-> "module", loc |-> 1],
     [file_path |-> "a.py", code |-> <<SP, NL>>, language |-> "python"],
     [path |-> "b.rb", content |-> <<SP, "y", NL>>, language |-> "ruby"],
     [id |-> "i4", filepath |-> "c.py", code |-> <<>>, text |-> <<"z">>],
     [id |-> "i5"]}

EmbedInputs == SeqsUpTo(Snippets, MaxSnips)

BadTexts == SUBSET {<<"x">>, <<"y">>}

\* ------------------------------------ main.py: the state machine
EmbedInit ==
    /\ chunks_json \in EmbedInputs
    /\ bad_texts \in BadTexts
    /\ batch_size \in 1..MaxBatch
    /\ embed_pc = "start"
    /\ code_snippets = <<>> /\ batch_start = 0
    /\ written = 0 /\ skipped = 0 /\ first_write = TRUE
    /\ embeddings_json = Absent /\ embeddings = Absent /\ embed_exc = None
    /\ ParserIdle
    /\ StoreIdle

\* parsed_code = embedder.load_parsed_code(): the list, sample_size unset
load_parsed_code ==
    /\ embed_pc = "start"
    /\ code_snippets' = chunks_json
    /\ embed_pc' = "loaded"
    /\ UNCHANGED <<chunks_json, bad_texts, batch_size, batch_start, written,
                   skipped, first_write, embeddings_json, embeddings, embed_exc>>
    /\ UNCHANGED <<parserVars, storeVars>>

\* generate_embeddings up to the loop: the file is opened for writing, which
\* empties it, and "[\n" is written
GenOpen ==
    /\ embed_pc = "loaded"
    /\ written' = 0
    /\ skipped' = 0
    /\ first_write' = TRUE
    /\ batch_start' = 0
    /\ embeddings_json' = Some(<<Piece("[\n")>>)
    /\ embed_pc' = "batches"
    /\ UNCHANGED <<chunks_json, bad_texts, batch_size, code_snippets,
                   embeddings, embed_exc>>
    /\ UNCHANGED <<parserVars, storeVars>>

\* one turn of the loop over the batches: texts are extracted, encoded (as a
\* batch, or one by one when the batch fails) and the objects are written
GenBatch ==
    /\ embed_pc = "batches"
    /\ batch_start < Len(code_snippets)
    /\ embeddings_json' = Some(WriteObjects(embeddings_json[1],
          SelectSeq(Batch(code_snippets, batch_start, batch_size), Encodable),
          first_write))
    /\ written' = written + Len(
          SelectSeq(Batch(code_snippets, batch_start, batch_size), Encodable))
    /\ skipped' = skipped + Len(Batch(code_snippets, batch_start, batch_size))
          - Len(SelectSeq(Batch(code_snippets, batch_start, batch_size),
                          Encodable))
    /\ first_write' = (first_write /\
          SelectSeq(Batch(code_snippets, batch_start, batch_size), Encodable)
             = <<>>)
    /\ batch_start' = batch_start + batch_size
    /\ UNCHANGED <<chunks_json, bad_texts, batch_size, embed_pc, code_snippets,
                   embeddings, embed_exc>>
    /\ UNCHANGED <<parserVars, storeVars>>

\* after the loop: "\n]\n" is written, the file is closed, and the number of
\* objects written is returned into main's embeddings
GenClose ==
    /\ embed_pc = "batches"
    /\ batch_start >= Len(code_snippets)
    /\ embeddings_json' = Some(Append(embeddings_json[1], Piece("\n]\n")))
    /\ embeddings' = Some(written)
    /\ embed_pc' = "generated"
    /\ UNCHANGED <<chunks_json, bad_texts, batch_size, code_snippets,
                   batch_start, written, skipped, first_write, embed_exc>>
    /\ UNCHANGED <<parserVars, storeVars>>

\* embedder.save_embeddings(embeddings): the file is opened for writing, the
\* number is dumped into it, and len(data) raises on the number
save_embeddings ==
    /\ embed_pc = "generated"
    /\ embeddings_json' = Some(<<NumPiece(embeddings[1])>>)
    /\ embed_exc' = "TypeError"
    /\ embed_pc' = "raised"
    /\ UNCHANGED <<chunks_json, bad_texts, batch_size, code_snippets,
                   batch_start, written, skipped, first_write, embeddings>>
    /\ UNCHANGED <<parserVars, storeVars>>

EmbedNext ==
    load_parsed_code \/ GenOpen \/ GenBatch \/ GenClose \/ save_embeddings

EmbedSpec == EmbedInit /\ [][EmbedNext]_vars

\* ------------------------------------------------- reading the state
\* the entry the last completed parse_file call was given, and what the
\* model of the library says of its content
Parsed     == idx > 1
CurEntry   == entries[idx - 1]
CurPath    == Get(CurEntry, "path", UnknownPath)
CurContent == Get(CurEntry, "content", <<>>)
CurLang    == detect_language(CurPath, CurContent)
CurTree    == ast_parse(CurContent)
ParsedPython == Parsed /\ CurLang = "python"
ParsedPythonOk == ParsedPython /\ CurTree.outcome = "ok"

Decls     == SelectSeq(CurTree.body, IsDecl)
LastLine  == Len(PhysLines(CurContent))
HasModule == chunks # <<>> /\ chunks[1].type = "module"

Covers(c, l) == c.start_line <= l /\ l <= c.end_line

\* the spans of chunks partition [1, LastLine]
Partition ==
    /\ \A l \in 1..LastLine :
          Cardinality({k \in 1..Len(chunks) : Covers(chunks[k], l)}) = 1
    /\ \A k \in 1..Len(chunks) :
          chunks[k].start_line >= 1 /\ chunks[k].end_line <= LastLine

\* every line from the first declaration on lies inside a top-level declaration
ResidualFirst ==
    \A l \in Decls[1].lineno..LastLine :
        \E k \in 1..Len(Decls) : Decls[k].lineno <= l /\ l <= Decls[k].end_lineno

\* the lines of the file that lie in no top-level declaration
ResidualLines ==
    {l \in 1..LastLine :
        ~\E k \in 1..Len(Decls) : Decls[k].lineno <= l /\ l <= Decls[k].end_lineno}

\* the content has only the line boundaries the parser counts too
NoSoftBreak == \A k \in 1..Len(CurContent) : CurContent[k] \notin (LineBreaks \ AstLineBreaks)

C1_Pre == ParsedPythonOk /\ Len(Decls) >= 1 /\ HasModule

\* C1 as claimed: for a Python file that parses, has N >= 1 top-level
\* declarations and a non-empty residual, the spans of the returned chunks
\* partition [1, last_line]: every line lies in exactly one span.
C1_SpansPartitionFile == C1_Pre => Partition

\* C1, amended: for such a file the module chunk spans [1, k], k being 1 plus
\* the number of newlines of the module chunk's code, every declaration chunk
\* spans its declaration's lines, and the spans partition [1, last_line]
\* exactly when every line from the first declaration on is inside a
\* top-level declaration and k is the number of lines before the first
\* declaration.
C1_PartitionIffResidualFirst ==
    C1_Pre =>
        /\ chunks[1].start_line = 1
        /\ chunks[1].end_line = 1 + CountNL(chunks[1].code)
        /\ NoSoftBreak => chunks[1].end_line = Cardinality(ResidualLines)
        /\ \A k \in 1..Len(Decls) :
              /\ chunks[k + 1].start_line = Decls[k].lineno
              /\ chunks[k + 1].end_line = Decls[k].end_lineno
        /\ (Partition <=>
               (ResidualFirst /\ chunks[1].end_line = Decls[1].lineno - 1))

\* C1 witness: a parsed file with a declaration and a module chunk whose spans
\* do partition the file
C1_Witness == C1_Pre /\ ResidualFirst /\ Partition /\ LastLine >= 3

\* C2 as claimed: an empty file on the Python path gives exactly one chunk, of
\* type module, with code = "" and loc = 1.
C2_EmptyFileOneModuleChunk ==
    (ParsedPython /\ CurContent = <<>>) =>
        /\ Len(chunks) = 1
        /\ chunks[1].type = "module"
        /\ chunks[1].code = <<>>
        /\ chunks[1].loc = 1

\* C2, amended: an empty file on the Python path gives no chunk at all (its
\* residual is empty, so no module chunk is made); it is on the generic path
\* that an empty file gives exactly one module chunk with code = "" and
\* loc = 1.
C2_EmptyPythonFileNoChunk ==
    (Parsed /\ CurContent = <<>>) =>
        IF CurLang = "python"
        THEN chunks = <<>>
        ELSE /\ Len(chunks) = 1
             /\ chunks[1].type = "module"
             /\ chunks[1].code = <<>>
             /\ chunks[1].loc = 1

\* C2 witness: an empty Python file has been parsed and has given no chunk
C2_Witness == ParsedPython /\ CurContent = <<>> /\ chunks = <<>> /\ pc = "loop"

\* C3 as claimed: parse_file returns at least one chunk for every file whose
\* content is not empty, and so never fails to return.
C3_NonEmptyFileHasChunk ==
    /\ (Parsed /\ CurContent # <<>>) => Len(chunks) >= 1
    /\ pc # "raised"

\* C4 as claimed: when the content of a Python-path input fails to parse,
\* parse_python does not raise and returns exactly one chunk, of type module,
\* with the whole content as code, no imports, no docstring and complexity 1.
C4_UnparseableDegrades ==
    /\ pc # "raised"
    /\ (ParsedPython /\ CurTree.outcome # "ok") =>
          /\ Len(chunks) = 1
          /\ chunks[1].type = "module"
          /\ chunks[1].code = CurContent
          /\ chunks[1].imports = <<>>
          /\ chunks[1].docstring = None
          /\ chunks[1].complexity = Some(1)

RECURSIVE ConcatParsed(_)
\* parse_file(e).value for each entry, concatenated in entry order
ConcatParsed(es) ==
    IF es = <<>> THEN <<>> ELSE parse_file(Head(es)).value \o ConcatParsed(Tail(es))

\* C5 as claimed: for every sequence of entries parse_all completes (no
\* exception leaves it) and its result, which it also writes, is the
\* concatenation in entry order of parse_file(entry).
C5_ParseAllCompletes ==
    /\ pc # "raised"
    /\ pc = "done" => /\ all_chunks = ConcatParsed(ingested_json)
                      /\ out_file = Some(all_chunks)

\* the chunk parse_python builds for declaration node d
DeclType(d) == IF d.type = "ClassDef" THEN "class" ELSE "function"

\* C7: for a Python file that parses, the chunks are the module chunk, if
\* any, followed by exactly one chunk per top-level function, async function
\* or class in file order; no chunk after the first is a module chunk, and a
\* declaration nested in another statement has no chunk.
C7_ModuleFirstThenDeclsInOrder ==
    ParsedPythonOk =>
        LET m == IF HasModule THEN 1 ELSE 0 IN
        /\ Len(chunks) = m + Len(Decls)
        /\ \A k \in 1..Len(Decls) :
              /\ chunks[m + k].type = DeclType(Decls[k])
              /\ chunks[m + k].name = Decls[k].name
              /\ chunks[m + k].start_line = Decls[k].lineno
              /\ chunks[m + k].end_line = Decls[k].end_lineno
        /\ \A k \in 2..Len(chunks) : chunks[k].type # "module"
        /\ \A j, k \in (m + 1)..Len(chunks) :
              j < k => chunks[j].start_line < chunks[k].start_line

\* C7 witness: a module chunk followed by a class chunk whose class holds a
\* nested function
C7_Witness ==
    /\ ParsedPythonOk /\ HasModule /\ Len(chunks) = 2
    /\ chunks[2].type = "class"
    /\ \E n \in 1..Len(Decls) : \E j \in 1..Len(Decls[n].body) : IsDecl(Decls[n].body[j])

\* C8 as claimed (its example): a .rb file whose only line is
\* require "json"  gives one module chunk with language ruby, imports
\* ["json"] and no complexity.
C8_RubyRequireJson ==
    (Parsed /\ CurLang = "ruby" /\ CurContent = RubyJson) =>
        /\ Len(chunks) = 1
        /\ chunks[1].type = "module"
        /\ chunks[1].language = "ruby"
        /\ chunks[1].imports = << <<"j">> >>
        /\ chunks[1].complexity = Absent

\* the file is one top-level function and nothing else: every line of it is
\* a line of the function
OnlyOneFunction ==
    /\ Len(CurTree.body) = 1
    /\ CurTree.body[1].type \in {"FunctionDef", "AsyncFunctionDef"}
    /\ CurTree.body[1].lineno = 1
    /\ CurTree.body[1].end_lineno = LastLine

\* C9 as claimed: a Python file that holds one top-level function and no
\* other code gives exactly one chunk, the function chunk, and no module
\* chunk.
C9_SingleFunctionOneChunk ==
    (ParsedPythonOk /\ OnlyOneFunction) =>
        Len(chunks) = 1 /\ chunks[1].type = "function"

\* C10: every chunk of every parse path has start_line >= 1,
\* end_line >= start_line and loc = end_line - start_line + 1 >= 1.
C10_SpanAndLocWellFormed ==
    \A k \in 1..Len(all_chunks) :
        LET c == all_chunks[k] IN
        /\ c.start_line >= 1
        /\ c.end_line >= c.start_line
        /\ c.loc = c.end_line - c.start_line + 1
        /\ c.loc >= 1

\* C10 witness: the chunks of one file include a module chunk of several lines
\* whose end was estimated and a declaration chunk of several lines
C10_Witness ==
    /\ \E k \in 1..Len(all_chunks) :
          all_chunks[k].type = "module" /\ all_chunks[k].loc >= 2
    /\ \E k \in 1..Len(all_chunks) :
          all_chunks[k].type = "function" /\ all_chunks[k].loc >= 2
    /\ \E k \in 1..Len(all_chunks) : all_chunks[k].language = "ruby"

\* ---------------------------------------------------------- C11 .. C13
\* the statement on a line, its indentation left aside
LineAtom(ln) == IF ln = <<>> THEN "" ELSE ln[Len(ln)]

\* the import references the claim gives the statement on a line
ClaimedRefs(ln) ==
    LET a == LineAtom(ln) IN
    CASE a = "import os"        -> <<"os">>
      [] a = "import a.b as c"  -> <<"a.b">>
      [] a = "import os, sys"   -> <<"os", "sys">>
      [] a = "from x import y"  -> <<"x.y">>
      [] a = "from . import y"  -> <<"y">>
      [] OTHER                  -> <<>>

RECURSIVE ClaimedImports(_)
\* the references of all the lines of a file, line by line
ClaimedImports(L) ==
    IF L = <<>> THEN <<>> ELSE ClaimedRefs(Head(L)) \o ClaimedImports(Tail(L))

Occurrences(sq, x) == Cardinality({k \in 1..Len(sq) : sq[k] = x})

\* sq and tq hold the same elements the same number of times
SameBag(sq, tq) ==
    /\ Len(sq) = Len(tq)
    /\ \A k \in 1..Len(sq) : Occurrences(sq, sq[k]) = Occurrences(tq, sq[k])

\* C11: all chunks parse_file returns for one file carry the same imports
\* sequence; when the Python parse succeeds it holds, once per occurrence
\* and without de-duplication, the reference of every import statement of the
\* file, nested ones included: the dotted name of a plain import, "X.Y" for
\* from X import Y, "Y" when there is no X.
C11_ChunksShareAllImports ==
    Parsed =>
        /\ \A j, k \in 1..Len(chunks) : chunks[j].imports = chunks[k].imports
        /\ ParsedPythonOk =>
              \A k \in 1..Len(chunks) :
                  SameBag(chunks[k].imports, ClaimedImports(PhysLines(CurContent)))

\* C11 witness: a module chunk and a function chunk share an imports sequence
\* that holds the same from-import twice, once from inside the function
C11_Witness ==
    /\ ParsedPythonOk /\ Len(chunks) = 2 /\ HasModule
    /\ chunks[2].imports = <<"x.y", "x.y">>
    /\ chunks[1].imports = chunks[2].imports
    /\ \E j \in 1..Len(Decls[1].body) : Decls[1].body[j].type = "ImportFrom"

\* C12: for a file whose language is not python parse_file does not fail and
\* returns exactly one chunk, of type module, whose code is the whole content,
\* with no name, no docstring and no complexity; only chunks whose language is
\* python have a complexity.
C12_GenericOneModuleChunk ==
    /\ \A k \in 1..Len(all_chunks) :
          all_chunks[k].complexity # Absent => all_chunks[k].language = "python"
    /\ pc = "raised" =>
          detect_language(Get(entries[idx], "path", UnknownPath),
                          Get(entries[idx], "content", <<>>)) = "python"
    /\ (Parsed /\ CurLang # "python") =>
          /\ Len(chunks) = 1
          /\ chunks[1].type = "module"
          /\ chunks[1].language = CurLang
          /\ chunks[1].code = CurContent
          /\ chunks[1].name = None
          /\ chunks[1].docstring = None
          /\ chunks[1].complexity = Absent

\* C12 witness: a file of unknown language with import lines has been parsed
\* into its one chunk
C12_Witness ==
    /\ Parsed /\ CurLang = "unknown" /\ Len(chunks) = 1
    /\ chunks[1].code # <<>> /\ chunks[1].imports # <<>>
    /\ chunks[1].complexity = Absent

\* what the claim has the statement on a line add to the count: one for a
\* conditional, a loop, a conditional expression, a try statement and each
\* except handler; k - 1 for a boolean operation of k operands
ClaimedWeight(ln) ==
    LET a == LineAtom(ln) IN
    CASE a \in {"if c:", "x = 1 if c else 2", TryAtom} \cup LoopAtoms
                                 \cup ExceptAtoms -> 1
      [] a = "x = a and b and c" -> 2
      [] a = "x = a and b or c"  -> 2
      [] OTHER                   -> 0

RECURSIVE ClaimedBranches(_)
ClaimedBranches(L) ==
    IF L = <<>> THEN 0 ELSE ClaimedWeight(Head(L)) + ClaimedBranches(Tail(L))

\* the complexity the claim gives a text
ClaimedCyclomatic(code) ==
    IF ast_parse(code).outcome # "ok" THEN 1
    ELSE 1 + ClaimedBranches(PhysLines(code))

\* C13 as claimed: compute_cyclomatic returns an integer >= 1: 1 when the
\* text does not parse, otherwise 1 plus one for each conditional, loop,
\* conditional expression, try statement and except handler of the text, plus
\* k - 1 for each boolean operation of k operands.
C13_CyclomaticCountsBranches ==
    \A k \in 1..Len(all_chunks) :
        all_chunks[k].language = "python" =>
            /\ all_chunks[k].complexity # Absent
            /\ all_chunks[k].complexity[1] >= 1
            /\ all_chunks[k].complexity[1] = ClaimedCyclomatic(all_chunks[k].code)

\* ------------------------------------------------------------------ C14
\* the input items that have a present, non-empty vector, in input order
KeptItems == SelectSeq(data, HasVector)

\* C14: for every input list, the records clean_embeddings returns have
\* pairwise distinct ids, and they are exactly the input items whose vector
\* is present and non-empty, in input order.
C14_DistinctIdsOfVectorItems ==
    store_pc = "returned" =>
        /\ \A j, k \in 1..Len(cleaned) :
              j # k => cleaned[j].id # cleaned[k].id
        /\ Len(cleaned) = Len(KeptItems)
        /\ \A k \in 1..Len(cleaned) :
              cleaned[k].embedding = KeptItems[k].vector

\* ------------------------------------------------------------------ C15
\* one object for each chunk whose text is not empty and was encoded, in
\* input order
StreamedObjects ==
    [k \in 1..Len(SelectSeq(chunks_json, Encodable)) |->
        EmbeddingObject(SelectSeq(chunks_json, Encodable)[k])]

\* C15: after the embedding pipeline of main.py has run (load_parsed_code,
\* generate_embeddings, save_embeddings on its result), the output file
\* holds a JSON array with one embedding object per chunk with non-empty
\* text that was encoded, in input order: no later step replaces or
\* truncates the array that generate_embeddings streamed.
C15_OutputHoldsStreamedArray ==
    embed_pc \in {"generated", "raised"} =>
        /\ json_load(embeddings_json[1]).kind = "array"
        /\ json_load(embeddings_json[1]).items = StreamedObjects

====
